---- MODULE Spec2Model ----
(***************************************************************************)
(* Model of src/server/gameinfo.js (HappyFunTimes): validation of a game   *)
(* manifest (the happyFunTimes section of a package.json), the default     *)
(* cascade, the resolution of the api version and the executable path      *)
(* check of GameInfo.prototype.parseGameInfo.                              *)
(*                                                                         *)
(* JavaScript strings are sequences of one-character strings, so that the  *)
(* regular expression, the length test, the semver grammar and the path    *)
(* arithmetic are computed character by character.  A JavaScript value is  *)
(* a record [t, s, n]: its typeof-like tag, its characters (string, or the *)
(* name of an object) and its number.  An absent property is Undefined.    *)
(***************************************************************************)
EXTENDS Integers, Sequences, FiniteSets

VARIABLES
  pc,          \* position in parseGameInfo (or "call"/"ret" of a validGameId call)
  contents,    \* the contents argument, by what JSON.parse makes of it:
               \* "syntaxError", "null", "noSection" or "section"
  manifest,    \* packageInfo.happyFunTimes as read (input, never changed)
  filePath,    \* the filePath argument
  settings,    \* config.getSettings(): hftDefaults, hftGameTypeDefaults, apiVersionSettings
  hftInfo,     \* the manifest object being patched in place
  defaulted,   \* hftInfo as it was right after the default cascade
  bestVersion, \* local bestVersion of parseGameInfo
  outcome,     \* "running" | "returned" | "rejected" | "thrown"
  reason,      \* which exit was taken
  message,     \* the validation error logged by the required-field check
  arg,         \* argument of a direct validGameId call
  ret          \* what that call threw, or NoThrow

vars == <<pc, contents, manifest, filePath, settings, hftInfo,
          defaulted, bestVersion, outcome, reason, message, arg, ret>>

(***************************************************************************)
(* Characters and strings.                                                 *)
(***************************************************************************)
\* The characters the model uses, in ASCII order.
Ascii ==
  <<"\t", "\n", "\f", "\r", " ", "+", "-", ".", "/",
    "0", "1", "2", "3", "4", "5", "6", "7", "8", "9",
    "A", "B", "C", "D", "E", "F", "G", "H", "I", "J", "K", "L", "M",
    "N", "O", "P", "Q", "R", "S", "T", "U", "V", "W", "X", "Y", "Z",
    "^", "_",
    "a", "b", "c", "d", "e", "f", "g", "h", "i", "j", "k", "l", "m",
    "n", "o", "p", "q", "r", "s", "t", "u", "v", "w", "x", "y", "z">>

Code(c) == CHOOSE i \in 1..Len(Ascii) : Ascii[i] = c

Digit == {"0", "1", "2", "3", "4", "5", "6", "7", "8", "9"}

\* A-Z and a-z
Letter ==
  {Ascii[i] : i \in Code("A")..Code("Z")} \cup {Ascii[i] : i \in Code("a")..Code("z")}

\* the white space String.prototype.trim removes, among the characters above
Whitespace == {"\t", "\n", "\f", "\r", " "}

Min(a, b) == IF a < b THEN a ELSE b

\* String.prototype.substring(0, n)
substring(s, n) == SubSeq(s, 1, Min(n, Len(s)))

\* s without its first n characters
Drop(s, n) == SubSeq(s, n + 1, Len(s))

\* first index of character c in s, 0 when there is none
IndexOf(s, c) ==
  IF \E i \in 1..Len(s) : s[i] = c
  THEN CHOOSE i \in 1..Len(s) : s[i] = c /\ \A j \in 1..(i - 1) : s[j] # c
  ELSE 0

\* String.prototype.split(c)
RECURSIVE Split(_, _)
Split(s, c) ==
  LET i == IndexOf(s, c)
  IN  IF i = 0 THEN <<s>>
      ELSE <<SubSeq(s, 1, i - 1)>> \o Split(Drop(s, i), c)

\* Array.prototype.join(c)
RECURSIVE Join(_, _)
Join(parts, c) ==
  IF parts = <<>> THEN <<>>
  ELSE IF Len(parts) = 1 THEN parts[1]
  ELSE parts[1] \o <<c>> \o Join(Tail(parts), c)

\* n copies of character c
Rep(c, n) == [i \in 1..n |-> c]

\* String.prototype.trim(): s from its first to its last character that is no
\* white space
trim(s) ==
  IF \A i \in 1..Len(s) : s[i] \in Whitespace THEN <<>>
  ELSE SubSeq(s,
              CHOOSE i \in 1..Len(s) :
                s[i] \notin Whitespace /\ \A j \in 1..(i - 1) : s[j] \in Whitespace,
              CHOOSE i \in 1..Len(s) :
                s[i] \notin Whitespace /\ \A j \in (i + 1)..Len(s) : s[j] \in Whitespace)

\* number -> decimal numeral
RECURSIVE NatToStr(_)
NatToStr(n) ==
  IF n < 10 THEN <<Ascii[Code("0") + n]>>
  ELSE NatToStr(n \div 10) \o <<Ascii[Code("0") + (n % 10)]>>

(***************************************************************************)
(* JavaScript values.                                                      *)
(***************************************************************************)
Undefined == [t |-> "undefined", s |-> <<>>, n |-> 0]
Str(s)    == [t |-> "string", s |-> s, n |-> 0]
Num(n)    == [t |-> "number", s |-> <<>>, n |-> n]
Bool(b)   == [t |-> "boolean", s |-> <<>>, n |-> IF b THEN 1 ELSE 0]
\* an object, identified by its name (a settings bundle is named by its key)
Obj(name) == [t |-> "object", s |-> name, n |-> 0]

\* typeof v
typeof(v) == v.t

\* ToBoolean(v), the test of `if (v)` and `!v`
Truthy(v) ==
  CASE v.t = "undefined" -> FALSE
    [] v.t = "string"    -> v.s # <<>>
    [] v.t = "number"    -> v.n # 0
    [] v.t = "boolean"   -> v.n = 1
    [] OTHER             -> TRUE

\* ToString(v), the conversion of `"" + v` and of RegExp.prototype.test(v)
ToString(v) ==
  CASE v.t = "string"    -> v.s
    [] v.t = "number"    -> NatToStr(v.n)
    [] v.t = "boolean"   -> IF v.n = 1 THEN <<"t", "r", "u", "e">>
                                       ELSE <<"f", "a", "l", "s", "e">>
    [] v.t = "undefined" -> <<"u", "n", "d", "e", "f", "i", "n", "e", "d">>
    [] OTHER             -> <<"[", "o", "b", "j", "e", "c", "t", " ",
                              "O", "b", "j", "e", "c", "t", "]">>

(***************************************************************************)
(* The field validators.  A validator yields the string it throws, or      *)
(* NoThrow when it returns normally.                                       *)
(***************************************************************************)
NoThrow == ""

\* the longest id validGameId accepts
IdMaxLen == 60

\* idRE = /^[a-zA-Z0-9-_]+$/
idRE(s) == Len(s) >= 1 /\ \A i \in 1..Len(s) : s[i] \in Letter \cup Digit \cup {"-", "_"}

\* `id.length > 60`: only a string has a length; undefined > 60 is false
LengthOver(v, n) == v.t = "string" /\ Len(v.s) > n

validGameId(id) ==
  IF ~Truthy(id) THEN "gameId not defined"
  ELSE IF ~idRE(ToString(id)) THEN "invalid characters in gameId only A-Z a-z 0-9 _ - allowed"
  ELSE IF LengthOver(id, IdMaxLen) THEN "gameId must be less than 60 characters"
  ELSE NoThrow

validString(v) == IF typeof(v) # "string" THEN "not a string" ELSE NoThrow

validNumber(v) == IF typeof(v) # "number" THEN "not a number" ELSE NoThrow

(***************************************************************************)
(* semver (npm): semver.valid, new SemVer(version), the order of versions, *)
(* the caret range '^' + apiVersion and semver.maxSatisfying.  MAJOR,      *)
(* MINOR and PATCH are kept as their decimal numerals, which go up to      *)
(* MAX_SAFE_INTEGER.                                                       *)
(***************************************************************************)
\* MAX_LENGTH: a longer string is no version
MAX_LENGTH == 256

\* MAX_SAFE_INTEGER, 9007199254740991: a greater MAJOR, MINOR or PATCH is none
MAX_SAFE_INTEGER ==
  <<"9", "0", "0", "7", "1", "9", "9", "2", "5", "4", "7", "4", "0", "9", "9", "1">>

\* a numeric identifier: digits, without a leading zero
IsNumeral(s) ==
  /\ Len(s) >= 1
  /\ \A i \in 1..Len(s) : s[i] \in Digit
  /\ (Len(s) > 1 => s[1] # "0")

IsDigits(s) == Len(s) >= 1 /\ \A i \in 1..Len(s) : s[i] \in Digit

\* a prerelease identifier: a numeral, or letters, digits and "-" with a non-digit
IsPreId(s) ==
  /\ Len(s) >= 1
  /\ \A i \in 1..Len(s) : s[i] \in Letter \cup Digit \cup {"-"}
  /\ (IsDigits(s) => IsNumeral(s))

\* a build identifier: letters, digits and "-"
IsBuildId(s) == Len(s) >= 1 /\ \A i \in 1..Len(s) : s[i] \in Letter \cup Digit \cup {"-"}

\* the part of s before its first c (all of s when there is none)
Before(s, c) == IF IndexOf(s, c) = 0 THEN s ELSE SubSeq(s, 1, IndexOf(s, c) - 1)

\* the identifiers after the first c of s, separated by "."; none without a c
IdsAfter(s, c) == IF IndexOf(s, c) = 0 THEN <<>> ELSE Split(Drop(s, IndexOf(s, c)), ".")

Sign(a, b) == IF a < b THEN -1 ELSE IF a > b THEN 1 ELSE 0

\* the first position where a and b differ or one of them has ended
FirstDifference(a, b) ==
  CHOOSE i \in 1..(Min(Len(a), Len(b)) + 1) :
    /\ \A j \in 1..(i - 1) : a[j] = b[j]
    /\ (i > Len(a) \/ i > Len(b) \/ a[i] # b[i])

\* the order of a and b as position i, their first difference, decides it
CompareAt(a, b, i) ==
  IF i > Len(a) /\ i > Len(b) THEN 0
  ELSE IF i > Len(a) THEN -1
  ELSE IF i > Len(b) THEN 1
  ELSE Sign(Code(a[i]), Code(b[i]))

\* ASCII order of two strings
CompareStr(a, b) == CompareAt(a, b, FirstDifference(a, b))

\* the order of two numerals by their value
CompareNumeral(a, b) ==
  IF Len(a) # Len(b) THEN Sign(Len(a), Len(b)) ELSE CompareStr(a, b)

DigitOf(c) == Code(c) - Code("0")

DigitChar(d) == Ascii[Code("0") + d]

\* the numeral of the value of s plus one
RECURSIVE Increment(_)
Increment(s) ==
  IF s = <<>> THEN <<"1">>
  ELSE IF s[Len(s)] = "9" THEN Increment(SubSeq(s, 1, Len(s) - 1)) \o <<"0">>
  ELSE SubSeq(s, 1, Len(s) - 1) \o <<DigitChar(DigitOf(s[Len(s)]) + 1)>>

\* digits without their leading zeros
RECURSIVE StripZeros(_)
StripZeros(s) == IF Len(s) > 1 /\ s[1] = "0" THEN StripZeros(Tail(s)) ELSE s

\* the digits of half the value of s (rounded down), carry being what the
\* digits before left over
RECURSIVE HalfFrom(_, _)
HalfFrom(s, carry) ==
  IF s = <<>> THEN <<>>
  ELSE <<DigitChar((10 * carry + DigitOf(s[1])) \div 2)>>
         \o HalfFrom(Tail(s), (10 * carry + DigitOf(s[1])) % 2)

IsOdd(s) == DigitOf(s[Len(s)]) % 2 = 1

\* the digits of twice the value of s, carry coming from the digits after
RECURSIVE TwiceFrom(_, _)
TwiceFrom(s, carry) ==
  IF s = <<>> THEN (IF carry = 1 THEN <<"1">> ELSE <<>>)
  ELSE TwiceFrom(SubSeq(s, 1, Len(s) - 1), (2 * DigitOf(s[Len(s)]) + carry) \div 10)
         \o <<DigitChar((2 * DigitOf(s[Len(s)]) + carry) % 10)>>

\* the value of s times 2^e
RECURSIVE TwiceTimes(_, _)
TwiceTimes(s, e) == IF e = 0 THEN s ELSE TwiceTimes(TwiceFrom(s, 0), e - 1)

\* the number of binary digits of the value of s
RECURSIVE BitLength(_)
BitLength(s) == IF s = <<"0">> THEN 0 ELSE 1 + BitLength(StripZeros(HalfFrom(s, 0)))

\* the value of s without its last e binary digits, rounded to nearest, ties
\* to even: guard is the last digit dropped, sticky whether a one was dropped
\* before it
RECURSIVE ShiftRound(_, _, _, _)
ShiftRound(s, e, guard, sticky) ==
  IF e = 0 THEN (IF guard /\ (sticky \/ IsOdd(s)) THEN Increment(s) ELSE s)
  ELSE ShiftRound(StripZeros(HalfFrom(s, 0)), e - 1, IsOdd(s), sticky \/ guard)

\* the double nearest to a numeral of the given number of binary digits: a
\* double holds 53 of them
NearestDouble(s, bits) ==
  IF bits <= 53 THEN s
  ELSE TwiceTimes(ShiftRound(s, bits - 53, FALSE, FALSE), bits - 53)

\* +s, the number a numeric identifier is compared as
ToNumber(s) == NearestDouble(StripZeros(s), BitLength(StripZeros(s)))

\* what `new SemVer` and semver.parse yield for a string that is no version
NotAVersion == [valid |-> FALSE, main |-> <<<<"0">>, <<"0">>, <<"0">>>>, pre |-> <<>>]

\* the version with the given MAJOR.MINOR.PATCH parts, prerelease and build
\* identifiers; NotAVersion when they do not make a full version
MakeVersion(parts, pre, build) ==
  IF /\ Len(parts) = 3
     /\ \A i \in 1..3 : IsNumeral(parts[i])
     /\ \A i \in 1..Len(pre) : IsPreId(pre[i])
     /\ \A i \in 1..Len(build) : IsBuildId(build[i])
  THEN [valid |-> TRUE, main |-> parts, pre |-> pre]
  ELSE NotAVersion

\* MAJOR.MINOR.PATCH(-PRERELEASE)? and the build identifiers
ParseCore(core, build) ==
  MakeVersion(Split(Before(core, "-"), "."), IdsAfter(core, "-"), build)

\* MAJOR.MINOR.PATCH(-PRERELEASE)?(+BUILD)?
ParseFull(s) == ParseCore(Before(s, "+"), IdsAfter(s, "+"))

\* the match of the regular expression FULL,
\* ^v?MAJOR.MINOR.PATCH(-PRERELEASE)?(+BUILD)?$, on str
MatchFull(str) ==
  ParseFull(IF Len(str) >= 1 /\ str[1] = "v" THEN Drop(str, 1) ELSE str)

\* the test of the numbers in the constructor SemVer: a MAJOR, MINOR or PATCH
\* above MAX_SAFE_INTEGER is rejected
Checked(v) ==
  IF v.valid /\ \A i \in 1..3 : CompareNumeral(v.main[i], MAX_SAFE_INTEGER) <= 0
  THEN v ELSE NotAVersion

\* new SemVer(str): a string of more than MAX_LENGTH characters is rejected,
\* the string is trimmed and matched against FULL, and the numbers are
\* tested; valid is FALSE where the constructor throws a TypeError
ParseSemver(str) ==
  IF Len(str) > MAX_LENGTH THEN NotAVersion ELSE Checked(MatchFull(trim(str)))

\* semver.parse(v): null (NotAVersion) for a value that is no string, for a
\* string of more than MAX_LENGTH characters and for one that FULL does not
\* match as it stands, untrimmed; otherwise what the constructor makes of it
semverParse(v) ==
  IF typeof(v) # "string" THEN NotAVersion
  ELSE IF Len(v.s) > MAX_LENGTH THEN NotAVersion
  ELSE Checked(MatchFull(v.s))

\* semver.valid(v) is not null
semverValid(v) == semverParse(v).valid

\* compareIdentifiers: two numeric identifiers by the numbers they convert
\* to, a numeric one below every other, the others in ASCII order
CompareIdentifiers(a, b) ==
  IF IsDigits(a) /\ IsDigits(b) THEN CompareNumeral(ToNumber(a), ToNumber(b))
  ELSE IF IsDigits(a) THEN -1
  ELSE IF IsDigits(b) THEN 1
  ELSE CompareStr(a, b)

\* the loop of comparePre: equal identifiers are passed over, the first pair
\* that differs decides, and the shorter list is the lower
RECURSIVE ComparePreFrom(_, _)
ComparePreFrom(a, b) ==
  IF a = <<>> /\ b = <<>> THEN 0
  ELSE IF b = <<>> THEN 1
  ELSE IF a = <<>> THEN -1
  ELSE IF a[1] = b[1] THEN ComparePreFrom(Tail(a), Tail(b))
  ELSE CompareIdentifiers(a[1], b[1])

\* comparePre: a release is above its prereleases
ComparePre(a, b) ==
  IF a = <<>> /\ b = <<>> THEN 0
  ELSE IF a = <<>> THEN 1
  ELSE IF b = <<>> THEN -1
  ELSE ComparePreFrom(a, b)

\* compareMain
CompareMain(a, b) ==
  IF a[1] # b[1] THEN CompareNumeral(a[1], b[1])
  ELSE IF a[2] # b[2] THEN CompareNumeral(a[2], b[2])
  ELSE CompareNumeral(a[3], b[3])

\* SemVer.prototype.compare of two parsed versions
Compare(a, b) ==
  IF a.main # b.main THEN CompareMain(a.main, b.main) ELSE ComparePre(a.pre, b.pre)

\* the exclusive upper end of ^M.m.p: the next value of the leading nonzero part
CaretUpper(main) ==
  IF main[1] # <<"0">> THEN <<Increment(main[1]), <<"0">>, <<"0">>>>
  ELSE IF main[2] # <<"0">> THEN <<<<"0">>, Increment(main[2]), <<"0">>>>
  ELSE <<<<"0">>, <<"0">>, Increment(main[3])>>

\* the lower end of the range "^" + version, a version that semver.valid
\* accepts (need is built from none other)
RangeLower(range) == Checked(MatchFull(Drop(range, 1)))

\* the upper end of the caret range whose lower end is lo, as the constructor
\* takes it (it throws for a number above MAX_SAFE_INTEGER)
RangeUpper(lo) == Checked([valid |-> lo.valid, main |-> CaretUpper(lo.main), pre |-> <<>>])

\* new Range(range) does not throw: the range is a caret range and its two
\* comparators, >= lower end and < upper end, are versions
RangeValid(range) ==
  /\ Len(range) >= 1
  /\ range[1] = "^"
  /\ RangeLower(range).valid
  /\ RangeUpper(RangeLower(range)).valid

\* a call of semver that ends in a TypeError (of new SemVer(key)) yields this
InvalidVersion == <<"TypeError">>

\* Range.prototype.test of the caret range whose lower end is lo, on what the
\* constructor makes of the version: "true" or "false", or "TypeError" where
\* the constructor throws.  A version with a prerelease is in the range only
\* when the lower end has one on the same MAJOR.MINOR.PATCH.
InCaret(v, lo) ==
  IF ~v.valid THEN "TypeError"
  ELSE IF /\ Compare(v, lo) >= 0
          /\ Compare(v, RangeUpper(lo)) < 0
          /\ (v.pre # <<>> => (lo.pre # <<>> /\ v.main = lo.main))
  THEN "true"
  ELSE "false"

\* rangeObj.test(version) for the range "^" + apiVersion, "false" when new
\* Range throws (semver.satisfies and semver.maxSatisfying catch that) and
\* for the empty version (`if (!version)`)
Satisfies(version, range) ==
  IF ~RangeValid(range) THEN "false"
  ELSE IF version = <<>> THEN "false"
  ELSE InCaret(ParseSemver(version), RangeLower(range))

\* the result null of maxSatisfying (falsy, like the empty string)
NoVersion == <<>>

\* semver.maxSatisfying(versions, range): the versions are scanned in order and
\* the greatest one satisfying the range is kept, the first one of equal
\* versions; a version the constructor rejects ends the scan with its TypeError
RECURSIVE maxSatisfyingFrom(_, _, _)
\* the step for the first version, which satisfies the range as sat says
maxSatisfyingStep(sat, versions, range, max) ==
  IF sat = "TypeError" THEN InvalidVersion
  ELSE maxSatisfyingFrom(
         Tail(versions), range,
         IF /\ sat = "true"
            /\ (max = NoVersion
                  \/ Compare(ParseSemver(max), ParseSemver(versions[1])) = -1)
         THEN versions[1] ELSE max)

maxSatisfyingFrom(versions, range, max) ==
  IF versions = <<>> THEN max
  ELSE maxSatisfyingStep(Satisfies(versions[1], range), versions, range, max)

maxSatisfying(versions, range) == maxSatisfyingFrom(versions, range, NoVersion)

(***************************************************************************)
(* path (POSIX): dirname, normalize, join.                                 *)
(***************************************************************************)
\* the greatest element of a non-empty set of numbers
Max(S) == CHOOSE x \in S : \A y \in S : y <= x

\* the positions after the first one where p has a "/" that some other
\* character follows: the scan of dirname goes from the end of p down to the
\* second character, skips the trailing "/" and stops at the first "/" it meets
DirEnds(p) ==
  {i \in 2..Len(p) : p[i] = "/" /\ \E j \in (i + 1)..Len(p) : p[j] # "/"}

\* p up to the "/" at position end; "//" when that is the second character
\* of an absolute path
DirnameTo(p, end) ==
  IF p[1] = "/" /\ end = 2 THEN <<"/", "/">> ELSE SubSeq(p, 1, end - 1)

\* path.dirname(p)
dirname(p) ==
  IF p = <<>> THEN <<".">>
  ELSE IF DirEnds(p) = {} THEN (IF p[1] = "/" THEN <<"/">> ELSE <<".">>)
  ELSE DirnameTo(p, Max(DirEnds(p)))

\* normalizeArray(parts, allowAboveRoot): "." is dropped, ".." removes the
\* segment before it (or is kept, for a relative path that climbs)
RECURSIVE normalizeArray(_, _, _)
normalizeArray(parts, allowAboveRoot, done) ==
  IF parts = <<>> THEN done
  ELSE normalizeArray(
         Tail(parts), allowAboveRoot,
         IF parts[1] = <<>> \/ parts[1] = <<".">> THEN done
         ELSE IF parts[1] # <<".", ".">> THEN Append(done, parts[1])
         ELSE IF done # <<>> /\ done[Len(done)] # <<".", ".">>
         THEN SubSeq(done, 1, Len(done) - 1)
         ELSE IF allowAboveRoot THEN Append(done, parts[1])
         ELSE done)

\* the normalized segments put together again
Assemble(body, isAbsolute, trailingSlash) ==
  (IF isAbsolute THEN <<"/">> ELSE <<>>)
    \o (IF body = <<>> /\ ~isAbsolute
        THEN (IF trailingSlash THEN <<".", "/">> ELSE <<".">>)
        ELSE IF body # <<>> /\ trailingSlash THEN body \o <<"/">>
        ELSE body)

\* path.normalize(p)
normalize(p) ==
  Assemble(Join(normalizeArray(Split(p, "/"), ~(Len(p) >= 1 /\ p[1] = "/"), <<>>), "/"),
           Len(p) >= 1 /\ p[1] = "/",
           Len(p) >= 1 /\ p[Len(p)] = "/")

\* path.join(a, b): the non-empty arguments joined by "/" and normalized
join(a, b) ==
  IF a = <<>> /\ b = <<>> THEN <<".">>
  ELSE IF a = <<>> THEN normalize(b)
  ELSE IF b = <<>> THEN normalize(a)
  ELSE normalize(a \o <<"/">> \o b)

(***************************************************************************)
(* Objects: a manifest or a defaults object is a function from Keys to     *)
(* values (Undefined for an absent property), wrapped with `defined` so    *)
(* that a missing object (undefined) can be told from an empty one.        *)
(***************************************************************************)
Keys == {"gameId", "apiVersion", "gameType", "category", "minPlayers",
         "gameExecutable", "needNewHFT", "versionSettings", "basePath",
         "gameUrl", "screenshotUrl"}

EmptyProps == [k \in Keys |-> Undefined]

\* an object with the given properties
Object(props) == [defined |-> TRUE, props |-> props]

\* the value undefined where an object is expected
NoObject == [defined |-> FALSE, props |-> EmptyProps]

\* the properties given by the record-like function f, every other key absent
Props(f) == [k \in Keys |-> IF k \in DOMAIN f THEN f[k] ELSE Undefined]

\* the property names every plain object inherits from Object.prototype
ObjectPrototype ==
  {<<"c", "o", "n", "s", "t", "r", "u", "c", "t", "o", "r">>,
   <<"t", "o", "S", "t", "r", "i", "n", "g">>,
   <<"t", "o", "L", "o", "c", "a", "l", "e", "S", "t", "r", "i", "n", "g">>,
   <<"v", "a", "l", "u", "e", "O", "f">>,
   <<"h", "a", "s", "O", "w", "n", "P", "r", "o", "p", "e", "r", "t", "y">>,
   <<"i", "s", "P", "r", "o", "t", "o", "t", "y", "p", "e", "O", "f">>,
   <<"p", "r", "o", "p", "e", "r", "t", "y", "I", "s", "E", "n", "u", "m", "e", "r", "a", "b", "l", "e">>,
   <<"_", "_", "p", "r", "o", "t", "o", "_", "_">>,
   <<"_", "_", "d", "e", "f", "i", "n", "e", "G", "e", "t", "t", "e", "r", "_", "_">>,
   <<"_", "_", "d", "e", "f", "i", "n", "e", "S", "e", "t", "t", "e", "r", "_", "_">>,
   <<"_", "_", "l", "o", "o", "k", "u", "p", "G", "e", "t", "t", "e", "r", "_", "_">>,
   <<"_", "_", "l", "o", "o", "k", "u", "p", "S", "e", "t", "t", "e", "r", "_", "_">>}

\* what such an inherited property holds (a function, or the prototype itself):
\* a value that is not undefined and has no enumerable property of its own
Inherited == Object(EmptyProps)

\* table[key] of a table keyed by strings: the table's own entry, else the
\* property inherited from Object.prototype, else undefined
Lookup(table, key) ==
  IF key \in DOMAIN table THEN table[key]
  ELSE IF key \in ObjectPrototype THEN Inherited
  ELSE NoObject

(***************************************************************************)
(* misc.copyProperties(src, dst, 1) as the specification describes it: a   *)
(* shallow merge that never overrides a property dst already defines.      *)
(***************************************************************************)
copyProperties(src, dst) ==
  [k \in Keys |-> IF dst[k] # Undefined THEN dst[k] ELSE src[k]]

\* applyDefaultProperties(obj, defaults): the properties of obj afterwards
applyDefaultProperties(obj, defaults) ==
  IF ~defaults.defined THEN obj
  ELSE copyProperties(defaults.props, obj)

\* the defaults of the gameType that obj has
applyTypeDefaults(obj, s) ==
  applyDefaultProperties(obj, Lookup(s.hftGameTypeDefaults, ToString(obj.gameType)))

\* variant: the per-gameType defaults applied before the global ones
applyDefaultsTypeFirst(obj, s) ==
  applyDefaultProperties(applyTypeDefaults(obj, s), s.hftDefaults)

\* the two calls of parseGameInfo: the global defaults, then the defaults of the
\* gameType the manifest has by then
applyDefaults(obj, s) ==
  applyTypeDefaults(applyDefaultProperties(obj, s.hftDefaults), s)

(***************************************************************************)
(* validateObject over the table requiredFields.                           *)
(***************************************************************************)
validSemver(v) == IF ~semverValid(v) THEN "not a valid semver" ELSE NoThrow

\* variant: the table in the opposite order
requiredFieldsReversed ==
  <<"minPlayers", "category", "gameType", "apiVersion", "gameId">>

\* the field names of requiredFields, in the order Object.keys yields them
requiredFields ==
  <<"gameId", "apiVersion", "gameType", "category", "minPlayers">>

\* requiredFields[fieldName].type(v)
FieldType(fieldName, v) ==
  CASE fieldName = "gameId"     -> validGameId(v)
    [] fieldName = "apiVersion" -> validSemver(v)
    [] fieldName = "gameType"   -> validString(v)
    [] fieldName = "category"   -> validString(v)
    [] fieldName = "minPlayers" -> validNumber(v)

\* the forEach of validateObject: the first checker that throws ends it
RECURSIVE validateFrom(_, _)
\* the catch of validateObject: e is rethrown with the field's name
Rethrow(fieldName, e, obj, rest) ==
  IF e # NoThrow THEN fieldName \o ": " \o e
  ELSE validateFrom(obj, rest)

validateFrom(obj, fields) ==
  IF fields = <<>> THEN NoThrow
  ELSE Rethrow(fields[1], FieldType(fields[1], obj[fields[1]]), obj, Tail(fields))

\* validateObject(obj, requiredFields): what it throws, or NoThrow
validateObject(obj) == validateFrom(obj, requiredFields)

(***************************************************************************)
(* Version resolution and the executable path of parseGameInfo.            *)
(***************************************************************************)
\* "0.0.0-unsupportedApiVersion"
UnsupportedApiVersion ==
  <<"0", ".", "0", ".", "0", "-", "u", "n", "s", "u", "p", "p", "o", "r", "t", "e", "d",
    "A", "p", "i", "V", "e", "r", "s", "i", "o", "n">>

\* need = '^' + hftInfo.apiVersion
need(apiVersion) == <<"^">> \o ToString(apiVersion)

\* the keys of an object held as the sequence of its <<key, value>> entries,
\* in the order they were inserted
InsertedKeys(obj) == [i \in 1..Len(obj) |-> obj[i][1]]

\* the greatest array index, 4294967294 (2^32 - 2)
MaxIndex == <<"4", "2", "9", "4", "9", "6", "7", "2", "9", "4">>

\* an integer-like key: an array index in canonical form, "0", "7", "10", up
\* to MaxIndex
IsIndex(k) == IsNumeral(k) /\ CompareNumeral(k, MaxIndex) <= 0

NotIndex(k) == ~IsIndex(k)

\* the integer-like keys of obj
IndexKeys(obj) == {obj[i][1] : i \in {j \in 1..Len(obj) : IsIndex(obj[j][1])}}

\* integer-like keys in ascending numeric order
RECURSIVE Ascending(_)
AscendingFrom(least, S) == <<least>> \o Ascending(S \ {least})

Ascending(S) ==
  IF S = {} THEN <<>>
  ELSE AscendingFrom(CHOOSE x \in S : \A y \in S : CompareNumeral(x, y) <= 0, S)

\* Object.keys(obj): the integer-like keys first, ascending, then the other
\* keys in the order they were inserted
ObjectKeys(obj) == Ascending(IndexKeys(obj)) \o SelectSeq(InsertedKeys(obj), NotIndex)

\* the keys as a set
KeySet(obj) == {obj[i][1] : i \in 1..Len(obj)}

\* the value of the entry with the given key, which obj has
Entry(obj, key) == obj[CHOOSE i \in 1..Len(obj) : obj[i][1] = key][2]

\* availableVersions = Object.keys(settings.apiVersionSettings)
availableVersions(s) == ObjectKeys(s.apiVersionSettings)

\* semver.maxSatisfying(availableVersions, need)
best(s, apiVersion) == maxSatisfying(availableVersions(s), need(apiVersion))

\* settings.apiVersionSettings[version]: the entry, else the property inherited
\* from Object.prototype, else undefined
versionSettingsOf(s, version) ==
  IF version \in KeySet(s.apiVersionSettings) THEN Entry(s.apiVersionSettings, version)
  ELSE IF version \in ObjectPrototype THEN [t |-> "function", s |-> version, n |-> 0]
  ELSE Undefined

\* gameBasePath = path.dirname(filePath)
gameBasePath(path) == dirname(path)

\* localPath = path.join(gameBasePath, hftInfo.gameExecutable)
localPath(path, exe) == join(gameBasePath(path), exe)

\* settings.hftGameTypeDefaults[hftInfo.gameType] === undefined
unknownGameType(s, gameType) == ~Lookup(s.hftGameTypeDefaults, ToString(gameType)).defined

\* gameBasePath != fullPath.substring(0, gameBasePath.length)
badPath(base, fullPath) == base # substring(fullPath, Len(base))

\* "/games/" + gameId + "/" + url
fixUrl(gameId, url) ==
  Str(<<"/", "g", "a", "m", "e", "s", "/">> \o ToString(gameId) \o <<"/">> \o ToString(url))

(***************************************************************************)
(* parseGameInfo, one action per step.  Every exit sets outcome:           *)
(* "returned" (the manifest is returned), "rejected" (logged, undefined    *)
(* returned) or "thrown" (the catch block rethrows).                       *)
(***************************************************************************)
inputs == <<contents, manifest, filePath, settings, arg, ret>>

Exit(how, why) ==
  /\ pc' = "done"
  /\ outcome' = how
  /\ reason' = why

Continue(next) ==
  /\ pc' = next
  /\ UNCHANGED <<outcome, reason>>

\* JSON.parse(contents) and the happyFunTimes section.  JSON.parse throws a
\* SyntaxError for contents that are no JSON; of the document null the property
\* happyFunTimes cannot be read (TypeError); of every other document without a
\* truthy happyFunTimes the section is missing.
ParseJSON ==
  /\ pc = "parse"
  /\ IF contents = "syntaxError" THEN Exit("thrown", "unparseable")
     ELSE IF contents = "null" THEN Exit("thrown", "nullDocument")
     ELSE IF contents = "noSection" THEN Exit("rejected", "missingSection")
     ELSE Continue("defaults")
  /\ UNCHANGED <<inputs, hftInfo, defaulted, bestVersion, message>>

\* the two applyDefaultProperties calls
ApplyDefaults ==
  /\ pc = "defaults"
  /\ hftInfo' = applyDefaults(hftInfo, settings)
  /\ defaulted' = hftInfo'
  /\ Continue("validate")
  /\ UNCHANGED <<inputs, bestVersion, message>>

\* validateObject(hftInfo, requiredFields) in its try block
Validate ==
  /\ pc = "validate"
  /\ message' = validateObject(hftInfo)
  /\ IF message' # NoThrow THEN Exit("rejected", "invalidField")
     ELSE Continue("gameType")
  /\ UNCHANGED <<inputs, hftInfo, defaulted, bestVersion>>

\* settings.hftGameTypeDefaults[hftInfo.gameType] === undefined
CheckGameType ==
  /\ pc = "gameType"
  /\ IF unknownGameType(settings, hftInfo.gameType)
     THEN Exit("rejected", "unknownGameType")
     ELSE Continue("version")
  /\ UNCHANGED <<inputs, hftInfo, defaulted, bestVersion, message>>

\* hftInfo.versionSettings = settings.apiVersionSettings[bestVersion]
AttachSettings(used, flag) ==
  /\ bestVersion' = used
  /\ hftInfo' = [hftInfo EXCEPT !.needNewHFT = flag,
                                !.versionSettings = versionSettingsOf(settings, used)]
  /\ IF hftInfo'.versionSettings = Undefined THEN Exit("rejected", "unknownApiVersion")
     ELSE Continue("urls")

\* if (!bestVersion): the fallback version and needNewHFT = true
Resolved(found) ==
  IF found = NoVersion THEN AttachSettings(UnsupportedApiVersion, Bool(TRUE))
  ELSE AttachSettings(found, hftInfo.needNewHFT)

\* maxSatisfying, the fallback version, needNewHFT and versionSettings; the
\* TypeError of maxSatisfying for a key that the constructor SemVer rejects
\* leaves through the catch block
ResolveVersion ==
  /\ pc = "version"
  /\ IF best(settings, hftInfo.apiVersion) = InvalidVersion
     THEN /\ Exit("thrown", "invalidVersion")
          /\ UNCHANGED <<hftInfo, bestVersion>>
     ELSE Resolved(best(settings, hftInfo.apiVersion))
  /\ UNCHANGED <<inputs, defaulted, message>>

\* the falsy gameType exit and the rewriting of gameUrl and screenshotUrl
FixUrls ==
  /\ pc = "urls"
  /\ IF ~Truthy(hftInfo.gameType)
     THEN /\ Exit("rejected", "noGameType")
          /\ UNCHANGED hftInfo
     ELSE /\ hftInfo' =
               [hftInfo EXCEPT
                  !.gameUrl = IF Truthy(@) THEN fixUrl(hftInfo.gameId, @) ELSE @,
                  !.screenshotUrl = IF Truthy(@) THEN fixUrl(hftInfo.gameId, @) ELSE @]
          /\ Continue("executable")
  /\ UNCHANGED <<inputs, defaulted, bestVersion, message>>

\* hftInfo.gameExecutable = localPath and the check of its normalized form
CheckExecutable(lp) ==
  /\ hftInfo' = [hftInfo EXCEPT !.gameExecutable = Str(lp)]
  /\ IF badPath(gameBasePath(filePath), normalize(lp))
     THEN Exit("thrown", "badExecutable")
     ELSE Continue("basePath")

\* gameExecutable: joined to the manifest's directory and checked against it;
\* path.join throws a TypeError for an argument that is no string
Executable ==
  /\ pc = "executable"
  /\ IF ~Truthy(hftInfo.gameExecutable)
     THEN /\ Continue("basePath")
          /\ UNCHANGED hftInfo
     ELSE IF typeof(hftInfo.gameExecutable) # "string"
     THEN /\ Exit("thrown", "notAPath")
          /\ UNCHANGED hftInfo
     ELSE CheckExecutable(localPath(filePath, hftInfo.gameExecutable.s))
  /\ UNCHANGED <<inputs, defaulted, bestVersion, message>>

\* hftInfo.basePath = gameBasePath; return packageInfo
Return ==
  /\ pc = "basePath"
  /\ hftInfo' = [hftInfo EXCEPT !.basePath = Str(gameBasePath(filePath))]
  /\ Exit("returned", "ok")
  /\ UNCHANGED <<inputs, defaulted, bestVersion, message>>

Next ==
  \/ ParseJSON
  \/ ApplyDefaults
  \/ Validate
  \/ CheckGameType
  \/ ResolveVersion
  \/ FixUrls
  \/ Executable
  \/ Return

\* a direct call validGameId(arg)
CallValidGameId ==
  /\ pc = "call"
  /\ ret' = validGameId(arg)
  /\ pc' = "ret"
  /\ UNCHANGED <<contents, manifest, filePath, settings, arg,
                 hftInfo, defaulted, bestVersion, outcome, reason, message>>

NextId == CallValidGameId

(***************************************************************************)
(* Inputs.  The manifests, settings and paths the model is run on.  A      *)
(* happyFunTimes section that is present is a JSON object; filePath is a   *)
(* POSIX path: absolute and normalized as readGameInfo builds it for a     *)
(* game directory, or as a caller gives it for a manifest file (relative,  *)
(* or with a "." segment).                                                 *)
(***************************************************************************)
\* bounds of the input sets
MaxShortId == 2   \* ids of up to this many characters over IdAlphabet
MaxOver    == 2   \* ids of IdMaxLen - MaxOver .. IdMaxLen + MaxOver characters
MaxMajor   == 1   \* major versions 0..MaxMajor among the settings keys
MaxKeys    == 2   \* apiVersionSettings has at most this many keys, in any order
MaxSegs    == 2   \* a gameExecutable of at most this many path segments

\* all sequences over S of length 1..n
RECURSIVE SeqsUpTo(_, _)
SeqsUpTo(S, n) ==
  IF n = 0 THEN {}
  ELSE LET shorter == SeqsUpTo(S, n - 1)
       IN  {<<x>> : x \in S} \cup shorter \cup {Append(q, x) : q \in shorter, x \in S}

S_html   == <<"h", "t", "m", "l">>
S_unity  == <<"u", "n", "i", "t", "y">>
S_zz     == <<"z", "z">>
S_game   == <<"g", "a", "m", "e">>
S_toy    == <<"t", "o", "y">>
S_g1     == <<"g", "1">>
S_gHtml  == <<"g", ".", "h", "t", "m", "l">>
S_x      == <<"x">>
S_upX    == <<".", ".", "/", "x">>
S_constructor == <<"c", "o", "n", "s", "t", "r", "u", "c", "t", "o", "r">>
S_v100   == <<"v", "1", ".", "0", ".", "0">>
S_7      == <<"7">>

\* M.m.p
Ver(M, m, p) == NatToStr(M) \o <<".">> \o NatToStr(m) \o <<".">> \o NatToStr(p)

\* a version of n characters: 1.0.0 with build metadata
LongVersion(n) == Ver(1, 0, 0) \o <<"+">> \o Rep("a", n - 6)

\* MAJOR.0.0 for a numeral MAJOR
MajorVersion(major) == major \o <<".", "0", ".", "0">>

\* 1.0.0 with the numeral pre as its prerelease
PreVersion(pre) == Ver(1, 0, 0) \o <<"-">> \o pre

\* the numerals 2^53 and 2^53 + 1, which convert to the same number
Pow53     == Increment(MAX_SAFE_INTEGER)
Pow53Plus == Increment(Pow53)

S_padded   == <<" ", "1", ".", "2", ".", "0", " ">>
S_lead100  == <<" ", "1", ".", "0", ".", "0">>

\* ids given to validGameId directly
IdAlphabet == {"a", "Z", "0", "_", "-", "/", " "}

IdInputs ==
  {Undefined, Str(<<>>), Num(0), Num(7), Num(123), Bool(TRUE), Bool(FALSE)}
    \cup {Str(s) : s \in SeqsUpTo(IdAlphabet, MaxShortId)}
    \cup {Str(Rep("a", n)) : n \in (IdMaxLen - MaxOver)..(IdMaxLen + MaxOver)}
    \cup {Str(Rep("a", n) \o <<"/">>) : n \in (IdMaxLen - MaxOver)..(IdMaxLen + MaxOver)}
    \cup {Str(<<"_">> \o Rep("9", n)) : n \in (IdMaxLen - MaxOver)..(IdMaxLen + MaxOver)}

\* values of the required fields in a manifest
GameIds      == {Undefined, Str(S_g1), Str(<<"a", "/">>), Num(7), Str(Rep("a", IdMaxLen + 1))}
ApiVersions  ==
  {Undefined, Str(Ver(1, 0, 0)), Str(Ver(9, 0, 0)), Str(<<"1", ".", "0">>), Num(1),
   Str(S_lead100), Str(LongVersion(MAX_LENGTH)), Str(LongVersion(MAX_LENGTH + 1)),
   Str(MajorVersion(Pow53))}
GameTypes    == {Undefined, Str(S_html), Str(S_zz), Str(<<>>), Num(3), Str(S_constructor)}
Categories   == {Undefined, Str(S_game), Num(1)}
MinPlayerses == {Undefined, Num(1), Str(<<"2">>)}

\* a manifest that passes every check
BaseManifest ==
  Props([gameId |-> Str(S_g1), apiVersion |-> Str(Ver(1, 0, 0)), gameType |-> Str(S_html),
         category |-> Str(S_game), minPlayers |-> Num(1)])

\* apiVersionSettings with the given keys, inserted in the given order; each
\* key has a bundle of its own
ApiVersionSettings(keys) == [i \in 1..Len(keys) |-> <<keys[i], Obj(keys[i])>>]

\* hftGameTypeDefaults with entries for the given game types
GameTypeDefaults(types, props) == [g \in types |-> Object(props)]

BaseKeys == <<Ver(1, 0, 0), Ver(1, 2, 0), Ver(2, 0, 0)>>

BaseSettings ==
  [hftDefaults         |-> Object(EmptyProps),
   hftGameTypeDefaults |-> GameTypeDefaults({S_html}, Props([minPlayers |-> Num(2)])),
   apiVersionSettings  |-> ApiVersionSettings(BaseKeys)]

\* global defaults that supply required fields, and an entry for the empty gameType
DefaultingSettings ==
  [hftDefaults         |-> Object(Props([gameType |-> Str(S_html), category |-> Str(S_toy),
                                         apiVersion |-> Str(Ver(1, 2, 0))])),
   hftGameTypeDefaults |-> GameTypeDefaults({S_html, <<>>}, Props([minPlayers |-> Num(2)])),
   apiVersionSettings  |-> ApiVersionSettings(Append(BaseKeys, UnsupportedApiVersion))]

BasePath == <<"/", "g", "/", "a", "/", "p", ".", "j">>

\* the state at the call parseGameInfo(contents, filePath)
Start(c, m, f, s) ==
  /\ pc = "parse"
  /\ contents = c
  /\ manifest = m
  /\ filePath = f
  /\ settings = s
  /\ hftInfo = m
  /\ defaulted = EmptyProps
  /\ bestVersion = NoVersion
  /\ outcome = "running"
  /\ reason = "none"
  /\ message = NoThrow
  /\ arg = Undefined
  /\ ret = NoThrow

\* contents that do not parse, the document null, or a document without a
\* happyFunTimes section
InitContents ==
  \E c \in {"syntaxError", "null", "noSection"}, s \in {BaseSettings, DefaultingSettings} :
    Start(c, EmptyProps, BasePath, s)

\* the required fields vary, without a gameExecutable, with an escaping one
\* and with one that is no string
InitFields ==
  \E id \in GameIds, av \in ApiVersions, gt \in GameTypes, cat \in Categories,
     mp \in MinPlayerses, exe \in {Undefined, Str(S_upX), Num(5)},
     s \in {BaseSettings, DefaultingSettings} :
    Start("section",
          Props([gameId |-> id, apiVersion |-> av, gameType |-> gt, category |-> cat,
                 minPlayers |-> mp, gameExecutable |-> exe]),
          BasePath, s)

\* the defaults vary: which keys the manifest defines, the global defaults and
\* the per-gameType defaults
ManifestValue(k) ==
  CASE k = "gameType"       -> Str(S_unity)
    [] k = "category"       -> Str(S_game)
    [] k = "minPlayers"     -> Num(1)
    [] k = "needNewHFT"     -> Bool(FALSE)
    [] k = "gameExecutable" -> Str(S_x)
    [] k = "gameUrl"        -> Str(S_gHtml)

DefaultsPool ==
  {NoObject,
   Object(EmptyProps),
   Object(Props([gameType |-> Str(S_html)])),
   Object(Props([gameType |-> Str(S_html), category |-> Str(S_toy), minPlayers |-> Num(3),
                 needNewHFT |-> Bool(TRUE), gameUrl |-> Str(S_x)])),
   Object(Props([gameType |-> Str(S_zz), gameExecutable |-> Str(S_upX)]))}

TypeDefaultsPool ==
  {GameTypeDefaults({}, EmptyProps),
   GameTypeDefaults({S_html}, Props([minPlayers |-> Num(2)])),
   GameTypeDefaults({S_html, S_unity},
                    Props([minPlayers |-> Num(2), category |-> Str(S_html),
                           gameType |-> Str(S_zz), gameExecutable |-> Str(S_gHtml)]))}

InitDefaults ==
  \E defined \in SUBSET {"gameType", "category", "minPlayers", "needNewHFT",
                         "gameExecutable", "gameUrl"},
     d \in DefaultsPool, td \in TypeDefaultsPool :
    Start("section",
          [k \in Keys |-> IF k \in defined THEN ManifestValue(k)
                          ELSE IF k \in {"gameId", "apiVersion"} THEN BaseManifest[k]
                          ELSE Undefined],
          BasePath,
          [hftDefaults |-> d, hftGameTypeDefaults |-> td,
           apiVersionSettings |-> ApiVersionSettings(BaseKeys)])

\* the versions vary: the requested apiVersion, the keys of apiVersionSettings
\* (among them "7", a key that is no version and is integer-like), and a
\* needNewHFT carried by the manifest or the defaults
VersionPool ==
  {Ver(M, m, 0) : M \in 1..MaxMajor, m \in {0, 2, 10}}
    \cup {Ver(0, 2, 0), Ver(0, 0, 1), Ver(MaxMajor + 1, 0, 0), S_v100,
          UnsupportedApiVersion, S_7}

Requested == {Ver(1, 0, 0), Ver(1, 2, 0), Ver(0, 2, 0), Ver(0, 0, 1), Ver(9, 0, 0)}

\* the key sequences: up to MaxKeys different keys in every insertion order
KeySets ==
  {<<>>} \cup {K \in SeqsUpTo(VersionPool, MaxKeys) :
                \A i, j \in 1..Len(K) : i # j => K[i] # K[j]}

\* needNewHFT in the manifest and in hftDefaults
Flags ==
  {<<Undefined, Undefined>>, <<Bool(TRUE), Undefined>>, <<Bool(FALSE), Undefined>>,
   <<Undefined, Bool(TRUE)>>}

InitVersion ==
  \E av \in Requested, K \in KeySets, fl \in Flags :
    Start("section",
          [BaseManifest EXCEPT !.apiVersion = Str(av), !.needNewHFT = fl[1]],
          BasePath,
          [BaseSettings EXCEPT !.hftDefaults = Object(Props([needNewHFT |-> fl[2]])),
                               !.apiVersionSettings = ApiVersionSettings(K)])

\* keys the constructor SemVer trims, skips or rejects, numbers at
\* MAX_SAFE_INTEGER, and integer-like keys on both sides of MaxIndex
KeyLists ==
  {<<Ver(1, 0, 0), S_padded>>,
   <<S_lead100, Ver(1, 0, 0)>>,
   <<Ver(1, 0, 0), <<>>>>,
   <<<<>>>>,
   <<Ver(1, 0, 0), LongVersion(MAX_LENGTH)>>,
   <<Ver(1, 0, 0), LongVersion(MAX_LENGTH + 1)>>,
   <<Ver(1, 0, 0), MajorVersion(Pow53)>>,
   <<MajorVersion(MAX_SAFE_INTEGER), Ver(1, 0, 0)>>,
   <<Ver(1, 0, 0), Increment(MaxIndex), S_7>>,
   <<PreVersion(Pow53), PreVersion(Pow53Plus)>>,
   <<PreVersion(Pow53Plus), PreVersion(Pow53)>>}

RequestedOfKeyLists ==
  {Ver(1, 0, 0), Ver(9, 0, 0), MajorVersion(MAX_SAFE_INTEGER), PreVersion(Pow53),
   LongVersion(MAX_LENGTH)}

InitKeys ==
  \E av \in RequestedOfKeyLists, K \in KeyLists :
    Start("section",
          [BaseManifest EXCEPT !.apiVersion = Str(av)],
          BasePath,
          [BaseSettings EXCEPT !.apiVersionSettings = ApiVersionSettings(K)])

\* the paths vary: the manifest's directory and gameExecutable
Segments == {<<".", ".">>, <<".">>, <<"x">>, <<"a">>, <<"a", "b">>, <<>>}

Executables ==
  {Undefined, Str(<<>>)} \cup {Str(Join(q, "/")) : q \in SeqsUpTo(Segments, MaxSegs)}

FilePaths ==
  {BasePath,
   <<"/", "g", "/", "a", "b", "/", "p", ".", "j">>,
   <<"/", "a", "/", "p", ".", "j">>,
   <<"/", "p", ".", "j">>,
   <<"p", ".", "j">>,
   <<"/", "g", "/", ".", "/", "p", ".", "j">>}

InitPath ==
  \E f \in FilePaths, exe \in Executables, url \in {Undefined, Str(S_gHtml)} :
    Start("section",
          [BaseManifest EXCEPT !.gameExecutable = exe, !.gameUrl = url, !.screenshotUrl = url],
          f, BaseSettings)

Init ==
  \/ InitContents
  \/ InitFields
  \/ InitDefaults
  \/ InitVersion
  \/ InitKeys
  \/ InitPath

Spec == Init /\ [][Next]_vars

\* validGameId called on its own
InitId ==
  /\ pc = "call"
  /\ arg \in IdInputs
  /\ ret = NoThrow
  /\ contents = "section"
  /\ manifest = EmptyProps
  /\ filePath = BasePath
  /\ settings = BaseSettings
  /\ hftInfo = EmptyProps
  /\ defaulted = EmptyProps
  /\ bestVersion = NoVersion
  /\ outcome = "running"
  /\ reason = "none"
  /\ message = NoThrow

SpecId == InitId /\ [][NextId]_vars

(***************************************************************************)
(* What the claims speak of.                                               *)
(***************************************************************************)
\* the required-field check has run
Validated ==
  \/ pc \in {"gameType", "version", "urls", "executable", "basePath"}
  \/ pc = "done" /\ reason \notin {"unparseable", "nullDocument", "missingSection"}

\* the version resolution has run
ResolveRan == bestVersion # NoVersion

\* the version step is over, however it ended
VersionStepDone ==
  \/ pc \in {"urls", "executable", "basePath"}
  \/ pc = "done" /\ reason \in {"invalidVersion", "unknownApiVersion", "noGameType",
                                 "notAPath", "badExecutable", "ok"}

\* the caret range of the apiVersion the manifest requests after the defaults
RequestedRange == <<"^">> \o ToString(defaulted.apiVersion)

\* the keys of apiVersionSettings that satisfy the requested range
SatisfyingKeys ==
  {k \in KeySet(settings.apiVersionSettings) : Satisfies(k, RequestedRange) = "true"}

\* some key of apiVersionSettings is one the constructor SemVer throws for:
\* a non-empty key that, trimmed, is no full version, or is longer than
\* MAX_LENGTH, or has a number above MAX_SAFE_INTEGER
KeyRejected ==
  \E k \in KeySet(settings.apiVersionSettings) : k # <<>> /\ ~ParseSemver(k).valid

\* filePath is absolute and normalized
PlainFilePath == filePath[1] = "/" /\ normalize(filePath) = filePath

\* an identifier: a string of 1 to 60 characters among A-Z a-z 0-9 _ -
IdChar == Letter \cup Digit \cup {"_", "-"}

IsIdentifier(v) ==
  /\ v.t = "string"
  /\ Len(v.s) >= 1
  /\ Len(v.s) <= 60
  /\ \A i \in 1..Len(v.s) : v.s[i] \in IdChar

\* the five required fields pass their checkers
RequiredFieldsValid(m) ==
  /\ validGameId(m.gameId) = NoThrow
  /\ semverValid(m.apiVersion)
  /\ m.gameType.t = "string"
  /\ m.category.t = "string"
  /\ m.minPlayers.t = "number"

\* q begins with the segments d
IsPrefix(d, q) == Len(d) <= Len(q) /\ SubSeq(q, 1, Len(d)) = d

\* the segments of a path, "." and ".." resolved (a relative path keeps the
\* ".." with which it climbs out of the working directory)
Resolve(path) ==
  normalizeArray(Split(path, "/"), ~(Len(path) >= 1 /\ path[1] = "/"), <<>>)

\* the segments q go down from the segments d: they begin with d and do not
\* climb from there
GoesDown(d, q) == IsPrefix(d, q) /\ (Len(q) > Len(d) => q[Len(d) + 1] # <<".", ".">>)

\* path lies within directory dir: it is dir or a descendant of dir
Within(dir, path) == GoesDown(Resolve(dir), Resolve(path))

\* the directory containing the manifest file
ManifestDir == dirname(filePath)

(***************************************************************************)
(* C3.  validGameId succeeds for exactly the identifiers of 1 to 60        *)
(* characters among A-Z a-z 0-9 _ -; every other input fails, an empty or  *)
(* absent id with "gameId not defined", a non-empty id with another        *)
(* character with the invalid-characters reason (also when longer than     *)
(* 60), and an id of valid characters longer than 60 with the length       *)
(* reason.                                                                 *)
(***************************************************************************)
C3_ValidGameIdExact ==
  pc = "ret" =>
    /\ (ret = NoThrow) <=> IsIdentifier(arg)
    /\ (arg = Undefined \/ arg = Str(<<>>)) => ret = "gameId not defined"
    /\ (arg.t = "string" /\ arg.s # <<>> /\ \E i \in 1..Len(arg.s) : arg.s[i] \notin IdChar)
         => ret = "invalid characters in gameId only A-Z a-z 0-9 _ - allowed"
    /\ (arg.t = "string" /\ Len(arg.s) > 60 /\ \A i \in 1..Len(arg.s) : arg.s[i] \in IdChar)
         => ret = "gameId must be less than 60 characters"

\* C3 holds of every input that is a string or absent
C3_OnStrings == arg.t \in {"string", "undefined"} => C3_ValidGameIdExact

\* a number passes: it is tested through its decimal form and has no length
C3_NumberAccepted == pc = "ret" /\ arg = Num(123) /\ ret = NoThrow

(***************************************************************************)
(* C4.  After the default cascade every key holds the manifest's own value *)
(* if the manifest defined it, otherwise the value of hftDefaults if       *)
(* defined there, otherwise the value of hftGameTypeDefaults[g], g being   *)
(* the gameType after the global defaults; without an entry for g the      *)
(* second step changes nothing.  No default replaces a manifest value.     *)
(***************************************************************************)
\* the value of key k after the global defaults alone
AfterGlobal(k) ==
  IF manifest[k] # Undefined THEN manifest[k]
  ELSE IF settings.hftDefaults.defined THEN settings.hftDefaults.props[k]
  ELSE Undefined

\* the value the claim gives key k after both steps
Cascaded(k) ==
  IF AfterGlobal(k) # Undefined THEN AfterGlobal(k)
  ELSE IF ToString(AfterGlobal("gameType")) \in DOMAIN settings.hftGameTypeDefaults
  THEN settings.hftGameTypeDefaults[ToString(AfterGlobal("gameType"))].props[k]
  ELSE Undefined

C4_DefaultCascade ==
  pc = "validate" => \A k \in Keys : hftInfo[k] = Cascaded(k)

\* a gameType supplied only by hftDefaults selects the per-type defaults, and a
\* manifest value stands against a different default
C4_Witness ==
  /\ pc = "validate"
  /\ manifest.gameType = Undefined
  /\ manifest.minPlayers = Undefined
  /\ hftInfo.gameType = Str(S_html)
  /\ hftInfo.minPlayers = Num(2)
  /\ manifest.category = Str(S_game)
  /\ settings.hftGameTypeDefaults[S_html].props.category = Str(S_html)
  /\ hftInfo.category = Str(S_game)

(***************************************************************************)
(* C8.  validateObject checks gameId, apiVersion, gameType, category and   *)
(* minPlayers against their checkers and is fail-fast: it fails at the     *)
(* first field, in table order, whose checker fails, with the error        *)
(* "<fieldName>: <reason>", and succeeds exactly when all five pass.       *)
(***************************************************************************)
\* the table of the claim: field i and the reason its checker gives for obj
ClaimField(i) ==
  CASE i = 1 -> "gameId"
    [] i = 2 -> "apiVersion"
    [] i = 3 -> "gameType"
    [] i = 4 -> "category"
    [] i = 5 -> "minPlayers"

ClaimReason(i, obj) ==
  CASE i = 1 -> validGameId(obj.gameId)
    [] i = 2 -> IF semverValid(obj.apiVersion) THEN NoThrow ELSE "not a valid semver"
    [] i = 3 -> IF obj.gameType.t = "string" THEN NoThrow ELSE "not a string"
    [] i = 4 -> IF obj.category.t = "string" THEN NoThrow ELSE "not a string"
    [] i = 5 -> IF obj.minPlayers.t = "number" THEN NoThrow ELSE "not a number"

C8_FailFast ==
  Validated =>
    IF \A i \in 1..5 : ClaimReason(i, defaulted) = NoThrow
    THEN message = NoThrow /\ reason # "invalidField"
    ELSE /\ reason = "invalidField"
         /\ \E i \in 1..5 :
              /\ ClaimReason(i, defaulted) # NoThrow
              /\ \A j \in 1..(i - 1) : ClaimReason(j, defaulted) = NoThrow
              /\ message = ClaimField(i) \o ": " \o ClaimReason(i, defaulted)

\* the second field fails and is reported although later fields are invalid too
C8_Witness ==
  /\ pc = "done"
  /\ reason = "invalidField"
  /\ message = "apiVersion: not a valid semver"
  /\ defaulted.gameType.t # "string"
  /\ defaulted.minPlayers.t # "number"

\* an apiVersion of MAX_LENGTH characters passes, one more character fails
C8_WitnessLongest ==
  /\ Validated
  /\ defaulted.apiVersion = Str(LongVersion(MAX_LENGTH))
  /\ message = NoThrow
  /\ reason # "invalidField"

C8_WitnessTooLong ==
  /\ defaulted.apiVersion = Str(LongVersion(MAX_LENGTH + 1))
  /\ message = "apiVersion: not a valid semver"

\* an apiVersion with a number above MAX_SAFE_INTEGER fails, and so does one
\* with white space before it
C8_WitnessTooBig ==
  /\ defaulted.apiVersion = Str(MajorVersion(Pow53))
  /\ message = "apiVersion: not a valid semver"

C8_WitnessPadded ==
  /\ defaulted.apiVersion = Str(S_lead100)
  /\ message = "apiVersion: not a valid semver"

\* all five fields pass
C8_WitnessAllPass ==
  /\ pc = "done"
  /\ outcome = "returned"
  /\ message = NoThrow

(***************************************************************************)
(* C5.  For every manifest that passed the defaults, the validation and    *)
(* the known-gameType check and for whose apiVersion some key of           *)
(* apiVersionSettings satisfies ^apiVersion, the versionSettings attached  *)
(* to the manifest is exactly apiVersionSettings[v] for the maximum        *)
(* satisfying key v: not the requested version itself, not a key of        *)
(* another major version, not a lower satisfying key.                      *)
(***************************************************************************)
\* k is a greatest key among the satisfying ones
IsMaxSatisfying(k) ==
  /\ k \in SatisfyingKeys
  /\ \A w \in SatisfyingKeys : Compare(ParseSemver(w), ParseSemver(k)) <= 0

C5_MaxSatisfyingSettings ==
  (VersionStepDone /\ SatisfyingKeys # {}) =>
    \E k \in SatisfyingKeys :
      /\ IsMaxSatisfying(k)
      /\ hftInfo.versionSettings = Entry(settings.apiVersionSettings, k)

\* C5 holds wherever no key is one the constructor SemVer throws for
C5_WithoutRejectedKey == ~KeyRejected => C5_MaxSatisfyingSettings

\* the key 1.0.0 satisfies ^1.0.0, the key "7" makes maxSatisfying throw, and
\* no versionSettings is attached
C5_SatisfiedYetThrown ==
  /\ pc = "done"
  /\ outcome = "thrown"
  /\ reason = "invalidVersion"
  /\ Ver(1, 0, 0) \in SatisfyingKeys
  /\ S_7 \in KeySet(settings.apiVersionSettings)
  /\ hftInfo.versionSettings = Undefined

\* 1.0.0 is requested and is a key, and the settings are those of 1.10.0
C5_Witness ==
  /\ ResolveRan
  /\ defaulted.apiVersion = Str(Ver(1, 0, 0))
  /\ Ver(1, 0, 0) \in KeySet(settings.apiVersionSettings)
  /\ hftInfo.versionSettings = Obj(Ver(1, 10, 0))

\* of the equal keys v1.0.0 and 1.0.0 the one inserted first is taken
C5_WitnessFirstOfEqual ==
  /\ ResolveRan
  /\ InsertedKeys(settings.apiVersionSettings) = <<S_v100, Ver(1, 0, 0)>>
  /\ bestVersion = S_v100
  /\ hftInfo.versionSettings = Obj(S_v100)

C5_WitnessLastOfEqual ==
  /\ ResolveRan
  /\ InsertedKeys(settings.apiVersionSettings) = <<Ver(1, 0, 0), S_v100>>
  /\ bestVersion = Ver(1, 0, 0)

\* 1.2.0 and 1.10.0 both satisfy, and 1.10.0 is the greater
C5_WitnessNumericOrder ==
  /\ ResolveRan
  /\ {Ver(1, 2, 0), Ver(1, 10, 0)} \subseteq SatisfyingKeys
  /\ hftInfo.versionSettings = Obj(Ver(1, 10, 0))

\* the key " 1.2.0 " is trimmed, satisfies ^1.0.0 and its bundle is attached
C5_WitnessPaddedKey ==
  /\ ResolveRan
  /\ defaulted.apiVersion = Str(Ver(1, 0, 0))
  /\ bestVersion = S_padded
  /\ hftInfo.versionSettings = Obj(S_padded)

\* a key of more than MAX_LENGTH characters makes maxSatisfying throw
C5_WitnessLongKey ==
  /\ reason = "invalidVersion"
  /\ LongVersion(MAX_LENGTH + 1) \in KeySet(settings.apiVersionSettings)

\* so does a key with a number above MAX_SAFE_INTEGER, and the empty key does not
C5_WitnessBigKey ==
  /\ reason = "invalidVersion"
  /\ MajorVersion(Pow53) \in KeySet(settings.apiVersionSettings)

C5_WitnessEmptyKey ==
  /\ outcome = "returned"
  /\ <<>> \in KeySet(settings.apiVersionSettings)

\* for ^9007199254740991.0.0 new Range throws and no key satisfies, the key
\* 9007199254740991.0.0 included
C5_WitnessRangeThrows ==
  /\ reason = "unknownApiVersion"
  /\ defaulted.apiVersion = Str(MajorVersion(MAX_SAFE_INTEGER))
  /\ MajorVersion(MAX_SAFE_INTEGER) \in KeySet(settings.apiVersionSettings)

\* the prereleases 2^53 and 2^53 + 1 compare equal, so the first inserted stays
C5_WitnessEqualAsNumbers ==
  /\ ResolveRan
  /\ InsertedKeys(settings.apiVersionSettings) = <<PreVersion(Pow53), PreVersion(Pow53Plus)>>
  /\ bestVersion = PreVersion(Pow53)

(***************************************************************************)
(* C6.  On every manifest for which version resolution finds a key         *)
(* satisfying ^apiVersion, the returned manifest's needNewHFT is false:    *)
(* needNewHFT is true exactly when no key of apiVersionSettings satisfies  *)
(* the requested range, also for manifests or defaults that carry a        *)
(* needNewHFT of their own.                                                *)
(***************************************************************************)
C6_NeedNewHFTFalseWhenResolved ==
  ResolveRan =>
    /\ SatisfyingKeys # {} => hftInfo.needNewHFT = Bool(FALSE)
    /\ (hftInfo.needNewHFT = Bool(TRUE)) <=> (SatisfyingKeys = {})

\* what the code does instead: the only write of needNewHFT is the one to true
\* when maxSatisfying finds no key; otherwise the manifest keeps what it had
\* after the defaults
C6_WrittenOnlyWhenUnresolved ==
  ResolveRan =>
    IF bestVersion = UnsupportedApiVersion /\ SatisfyingKeys = {}
    THEN hftInfo.needNewHFT = Bool(TRUE)
    ELSE hftInfo.needNewHFT = defaulted.needNewHFT

\* a resolved manifest is returned without a needNewHFT
C6_Witness ==
  /\ outcome = "returned"
  /\ SatisfyingKeys # {}
  /\ hftInfo.needNewHFT = Undefined

\* a resolved manifest is returned with the needNewHFT of true it carried
C6_WitnessCarried ==
  /\ outcome = "returned"
  /\ SatisfyingKeys # {}
  /\ hftInfo.needNewHFT = Bool(TRUE)

(***************************************************************************)
(* C7.  Every returned manifest has a defined versionSettings; and         *)
(* whenever no key of apiVersionSettings satisfies ^apiVersion, needNewHFT *)
(* is set to true, the lookup uses "0.0.0-unsupportedApiVersion" and the   *)
(* manifest is rejected: no manifest is returned and no fault is thrown.   *)
(***************************************************************************)
C7_UnresolvedIsRejected ==
  /\ outcome = "returned" => hftInfo.versionSettings # Undefined
  /\ (VersionStepDone /\ SatisfyingKeys = {}) =>
       /\ hftInfo.needNewHFT = Bool(TRUE)
       /\ bestVersion = UnsupportedApiVersion
       /\ pc = "done"
       /\ outcome = "rejected"

\* the first half of C7 holds as it stands
C7_ReturnedHasSettings == outcome = "returned" => hftInfo.versionSettings # Undefined

\* C7 holds of the settings without a key the constructor SemVer throws for
\* and without an entry under the fallback key
C7_OnPlainSettings ==
  (~KeyRejected /\ UnsupportedApiVersion \notin KeySet(settings.apiVersionSettings))
    => C7_UnresolvedIsRejected

\* 9.0.0 is requested of the keys 1.0.0, 1.2.0, 2.0.0 and the manifest is rejected
C7_Witness ==
  /\ outcome = "rejected"
  /\ reason = "unknownApiVersion"
  /\ defaulted.apiVersion = Str(Ver(9, 0, 0))
  /\ ObjectKeys(settings.apiVersionSettings) = BaseKeys
  /\ hftInfo.needNewHFT = Bool(TRUE)

\* no key satisfies ^9.0.0 and a fault is thrown: the key "7" is no version
C7_UnresolvedThrown ==
  /\ pc = "done"
  /\ outcome = "thrown"
  /\ reason = "invalidVersion"
  /\ defaulted.apiVersion = Str(Ver(9, 0, 0))
  /\ S_7 \in KeySet(settings.apiVersionSettings)
  /\ SatisfyingKeys = {}
  /\ hftInfo.needNewHFT = Undefined

\* no key satisfies and the manifest is returned with the entry that
\* apiVersionSettings has under the fallback key
C7_WitnessFallbackEntry ==
  /\ outcome = "returned"
  /\ SatisfyingKeys = {}
  /\ hftInfo.versionSettings = Obj(UnsupportedApiVersion)

(***************************************************************************)
(* C1.  Whenever parseGameInfo returns a manifest that has a               *)
(* gameExecutable, the rewritten gameExecutable lies within the manifest's *)
(* directory: it is the directory or a descendant, never a path in another *)
(* directory such as a sibling whose name starts with the directory's.     *)
(***************************************************************************)
C1_ExecutableWithinDir ==
  (outcome = "returned" /\ Truthy(hftInfo.gameExecutable)) =>
    Within(ManifestDir, hftInfo.gameExecutable.s)

(***************************************************************************)
(* C2.  Whenever the gameExecutable of a manifest resolves outside the     *)
(* manifest's directory, parseGameInfo ends with a thrown fault and never  *)
(* returns the manifest.  (Taken here for the manifests that reach the     *)
(* executable step: an earlier rejection ends parseGameInfo before it.)    *)
(***************************************************************************)
\* the gameExecutable the manifest has after the defaults resolves outside
ExecutableEscapes ==
  /\ defaulted.gameExecutable.t = "string"
  /\ defaulted.gameExecutable.s # <<>>
  /\ ~Within(ManifestDir, ManifestDir \o <<"/">> \o defaulted.gameExecutable.s)

C2_EscapeIsFatal ==
  (pc = "done" /\ outcome # "rejected" /\ ExecutableEscapes) => outcome = "thrown"

(***************************************************************************)
(* C9.  For contents that parse, a missing happyFunTimes section, an       *)
(* invalid required field (after defaults), a gameType that is no key of   *)
(* hftGameTypeDefaults and an apiVersion without a settings bundle each    *)
(* end parseGameInfo without a manifest and without a throw; the checks    *)
(* apply in that order and the first failing one decides; a throw occurs   *)
(* only for unparseable contents or an executable-path violation.          *)
(***************************************************************************)
\* no settings bundle can be found for the requested apiVersion
NoBundle ==
  /\ SatisfyingKeys = {}
  /\ UnsupportedApiVersion \notin KeySet(settings.apiVersionSettings)

\* the gameExecutable after the defaults is at fault: it resolves outside the
\* manifest's directory, or it is no path at all
ExecutableFault ==
  \/ ExecutableEscapes
  \/ Truthy(defaulted.gameExecutable) /\ defaulted.gameExecutable.t # "string"

\* the outcome the claim gives a document that has a happyFunTimes section
SectionOutcome ==
  IF ~RequiredFieldsValid(defaulted)
  THEN outcome = "rejected" /\ reason = "invalidField"
  ELSE IF defaulted.gameType.s \notin DOMAIN settings.hftGameTypeDefaults
  THEN outcome = "rejected" /\ reason = "unknownGameType"
  ELSE IF NoBundle THEN outcome = "rejected" /\ reason = "unknownApiVersion"
  ELSE /\ reason \notin {"missingSection", "invalidField", "unknownGameType",
                         "unknownApiVersion"}
       /\ outcome = "thrown" => ExecutableFault

C9_SoftRejectionsInOrder ==
  pc = "done" =>
    IF contents = "syntaxError" THEN outcome = "thrown"
    ELSE IF contents # "section" THEN outcome = "rejected" /\ reason = "missingSection"
    ELSE SectionOutcome

\* C9 holds of every document other than null whose gameType is not the name
\* of a property that hftGameTypeDefaults inherits from Object.prototype, when
\* no key of apiVersionSettings is one the constructor SemVer throws for and
\* filePath is absolute and normalized
C9_OnOwnGameTypes ==
  (/\ pc = "done"
   /\ contents # "null"
   /\ ~KeyRejected
   /\ PlainFilePath
   /\ ToString(defaulted.gameType) \notin
        ObjectPrototype \ DOMAIN settings.hftGameTypeDefaults)
    => C9_SoftRejectionsInOrder

\* the document null parses and ends in a throw
C9_NullDocumentThrown ==
  /\ pc = "done"
  /\ contents = "null"
  /\ outcome = "thrown"

\* the gameType "constructor" is no key of hftGameTypeDefaults and the manifest
\* is returned
C9_InheritedGameTypeReturned ==
  /\ outcome = "returned"
  /\ defaulted.gameType = Str(S_constructor)
  /\ S_constructor \notin DOMAIN settings.hftGameTypeDefaults

\* a key of apiVersionSettings that is no version ends in a throw
C9_InvalidKeyThrown ==
  /\ pc = "done"
  /\ outcome = "thrown"
  /\ reason = "invalidVersion"
  /\ ~ExecutableFault

\* an unknown gameType decides although the apiVersion has no bundle either
C9_Witness ==
  /\ pc = "done"
  /\ outcome = "rejected"
  /\ reason = "unknownGameType"
  /\ NoBundle

\* an invalid field decides although the executable escapes the directory
C9_WitnessBeforeExecutable ==
  /\ pc = "done"
  /\ outcome = "rejected"
  /\ reason = "invalidField"
  /\ ExecutableEscapes

(***************************************************************************)
(* C10.  Every manifest that after the defaults satisfies all five         *)
(* required-field checks, has a gameType that is a key of                  *)
(* hftGameTypeDefaults and requests an apiVersion for which some key of    *)
(* apiVersionSettings satisfies ^apiVersion is accepted: parseGameInfo     *)
(* returns it, and its basePath equals exactly the directory containing    *)
(* the manifest file.                                                      *)
(***************************************************************************)
Acceptable ==
  /\ contents = "section"
  /\ RequiredFieldsValid(defaulted)
  /\ defaulted.gameType.s \in DOMAIN settings.hftGameTypeDefaults
  /\ SatisfyingKeys # {}

C10_ValidIsAccepted ==
  (pc = "done" /\ Acceptable) =>
    /\ outcome = "returned"
    /\ hftInfo.basePath = Str(ManifestDir)

\* a valid manifest at the relative path p.j whose gameExecutable lies in its
\* directory ends in the throw of the executable check
C10_InsideExecutableThrown ==
  /\ pc = "done"
  /\ Acceptable
  /\ filePath = <<"p", ".", "j">>
  /\ defaulted.gameExecutable = Str(S_x)
  /\ ~ExecutableEscapes
  /\ outcome = "thrown"
  /\ reason = "badExecutable"

\* likewise at a path with a "." segment
C10_InsideExecutableThrownDot ==
  /\ pc = "done"
  /\ Acceptable
  /\ filePath = <<"/", "g", "/", ".", "/", "p", ".", "j">>
  /\ ~ExecutableEscapes
  /\ outcome = "thrown"
  /\ reason = "badExecutable"

\* the empty gameType, a key of hftGameTypeDefaults, is rejected after all
C10_EmptyGameTypeRejected ==
  /\ pc = "done"
  /\ Acceptable
  /\ reason = "noGameType"

\* a valid manifest is not returned when a key of apiVersionSettings is no version
C10_RejectedKeyThrown ==
  /\ pc = "done"
  /\ Acceptable
  /\ reason = "invalidVersion"

\* the inputs on which C10 holds: filePath absolute and normalized, no key the
\* constructor SemVer throws for, a non-empty gameType, and a gameExecutable
\* that is absent, empty, or a string resolving within the directory
C10_OnPlainInputs ==
  (/\ PlainFilePath
   /\ ~KeyRejected
   /\ defaulted.gameType.s # <<>>
   /\ ~Truthy(defaulted.gameExecutable)
        \/ (defaulted.gameExecutable.t = "string" /\ ~ExecutableEscapes))
    => C10_ValidIsAccepted

\* a manifest with an executable inside its directory is returned
C10_Witness ==
  /\ outcome = "returned"
  /\ filePath = BasePath
  /\ hftInfo.basePath = Str(<<"/", "g", "/", "a">>)
  /\ hftInfo.gameExecutable = Str(<<"/", "g", "/", "a", "/", "x">>)
====
